---------------------------- MODULE Spec2Model ----------------------------
(*************************************************************************)
(* A state-machine model of the GA driver in src/__main__.py: run(), the  *)
(* generational loop, and compare(), the population comparison.  Every    *)
(* statement group of the two functions is one action; `pc` is the        *)
(* position of the interpreter inside the function.                       *)
(*                                                                        *)
(* The Population, GATools, GAProgress and convenience_tools classes are  *)
(* imported by src/__main__.py but their code is not part of the source   *)
(* tree; their operations are modelled from the specification text.       *)
(*                                                                        *)
(* Four specifications are defined over the same variables:               *)
(*   Spec / FairSpec  whole executions of run() and compare();            *)
(*   GenSpec          one generation of run() from the merge to the        *)
(*                    survivor selection, on wider populations;            *)
(*   BBSpec           the constructors of BuildingBlock;                   *)
(*   BBUseSpec        the methods of a constructed BuildingBlock           *)
(*                    (src/src/stk/molecular/molecules/building_block.py). *)
(*************************************************************************)
EXTENDS Integers, Sequences, FiniteSets, TLC

\* ------------------------------------------------------------- bounds
\* Number of distinct candidate identities.
NumIds == 2
\* Largest population size that can be configured (GAInput.pop_size).
MaxPop == 2
\* Largest population an initializer (or a loaded dump) hands back.
MaxInit == 2
\* Largest number of generations that can be configured.
MaxGen == 3
\* Largest number of new members (offspring and mutants together) made in
\* one generation.
MaxNew == 1
\* Largest number of populations listed in comparison_pops.
MaxCmp == 2
\* Number of distinct candidate identities in GenSpec.
NumCand == 4
\* Largest number of new members (offspring and mutants together) in GenSpec.
MaxKids == 2
\* Largest number of atoms of a molecule in BBSpec.
MaxAtoms == 2
\* Largest number of entries of a `functional_groups` argument in BBSpec.
MaxFgs == 2

\* Longest iterable of ids handed to get_functional_groups in BBUseSpec.
MaxIds == 2

Ids == 1..NumIds

Cands == 1..NumCand

\* ------------------------------------------------------------- state
VARIABLES
    entry,            \* "run" | "compare": the branch taken at __main__
    pc,               \* position inside run() / compare()
    init_func,        \* ga_input.init_func.name: "load" or a fresh initializer
    num_generations,  \* ga_input.num_generations
    pop_size,         \* ga_input.pop_size (assigned in restart mode)
    exitThr,          \* exit predicate of ga_tools: 0 absent, t "a raw >= t"
    failId,           \* the fitness function fails on the identities up to
                      \* failId (0: on none)
    pop,              \* the local `pop`: flattened sequence of members
    subpops,          \* subpopulations of `pop` (compare() only)
    offspring,        \* the local `offspring`
    mutants,          \* the local `mutants`
    x,                \* the loop variable of `for x in range(1, n+1)`
    progress,         \* the GAProgress instance: sequence of snapshots
    cwd,              \* the process' current directory
    dirs,             \* directories created, in creation order
    files,            \* files written: [dir, name, pop]
    log,              \* stage events of the execution, oldest first
    cfgSize,          \* ghost: pop_size as read from the input file
    priorSnapshots,   \* ghost: snapshots in the tracker of the run that wrote
                      \* the loaded dump (1: at its initial pass, 2: after its
                      \* first generation; 0: nothing is loaded)
    cmpLeft,          \* compare(): comparison_pops not yet processed
    sp,               \* compare(): the local `sp`
    normalization_func, \* compare(): inp.normalization_func is defined
    raised,           \* the exception that ended the function, or "none"
    ga_tools,         \* the GATools bundles made so far, oldest first; the
                      \* first one is pop.ga_tools
    bb_pc,            \* position inside a BuildingBlock constructor
    call,             \* the constructor called and its arguments
    block,            \* the BuildingBlock instance under construction
    bb_raised,        \* the exception that ended the constructor, or "none"
    popObj,           \* which object the local `pop` refers to: a number
                      \* that changes when `pop` is bound to a new object
    reader,           \* init_from_file: the rdkit reader invoked, or "none"
    op,               \* the method called on the built BuildingBlock
    result            \* what that method has returned or yielded

vars == <<entry, pc, init_func, num_generations, pop_size, exitThr, failId,
          pop, subpops, offspring, mutants, x, progress, cwd, dirs, files,
          log, cfgSize, priorSnapshots, cmpLeft, sp, normalization_func,
          raised, ga_tools, bb_pc, call, block, bb_raised, popObj, reader, op,
          result>>

\* What the input file fixes for the whole execution.
cfgVars == <<entry, init_func, num_generations, exitThr, failId, cfgSize,
             priorSnapshots, normalization_func>>
\* The populations other than `pop`.
auxPops == <<subpops, offspring, mutants, sp>>
\* The file system.
fsVars == <<cwd, dirs, files>>
\* The state of a BuildingBlock construction.
bbVars == <<bb_pc, call, block, bb_raised, reader, op, result>>

\* ------------------------------------------------------------ helpers
SeqsUpTo(S, n) == UNION {[1..k -> S] : k \in 0..n}

Range(s) == {s[i] : i \in 1..Len(s)}

\* str(x) of a generation index.
str(n) == <<"0", "1", "2", "3", "4", "5", "6", "7", "8", "9">>[n + 1]

\* A member as made by an initializer, a crossover or a mutation: no
\* optimized structure, no fitness.
NewMember(i) ==
    [id |-> i, opt |-> FALSE, ev |-> FALSE, raw |-> 0, failed |-> FALSE,
     scaled |-> -1]

\* The fitness function of ga_tools: fails on the identities up to failId,
\* else gives a raw value that depends on the identity only.
FitnessOf(i) == i

\* optimize_population(): every member gets an optimized structure.
optimize_population(p) == [i \in 1..Len(p) |-> [p[i] EXCEPT !.opt = TRUE]]

\* calculate_member_fitness(): every member ends with a raw fitness or a
\* failure mark; a member that already carries a fitness is left untouched.
calculate_member_fitness(p, fid) ==
    [i \in 1..Len(p) |->
        IF p[i].ev THEN p[i]
        ELSE IF p[i].id <= fid
             THEN [p[i] EXCEPT !.ev = TRUE, !.failed = TRUE, !.raw = 0]
             ELSE [p[i] EXCEPT !.ev = TRUE, !.failed = FALSE,
                               !.raw = FitnessOf(p[i].id)]]

\* Smallest raw fitness among the members that were evaluated successfully.
MinRaw(p) ==
    LET ok == {p[i].raw : i \in {j \in 1..Len(p) : p[j].ev /\ ~p[j].failed}}
    IN  IF ok = {} THEN 0 ELSE CHOOSE m \in ok : \A r \in ok : m <= r

\* The scaled fitness of member c when the smallest raw fitness of the
\* population is m; a failed (or unevaluated) member gets the worst value.
Scaled(c, m) ==
    IF c.ev /\ ~c.failed
    THEN [c EXCEPT !.scaled = c.raw - m + 1]
    ELSE [c EXCEPT !.scaled = 0]

\* normalize_fitness_values(): one scaled value per member from statistics
\* of the current population.
normalize_fitness_values(p) == [i \in 1..Len(p) |-> Scaled(p[i], MinRaw(p))]

\* The members of the subpopulations ps, in order.
RECURSIVE Flatten(_)
Flatten(ps) == IF ps = <<>> THEN <<>> ELSE Head(ps) \o Flatten(Tail(ps))

\* normalize_fitness_values() of a population that holds subpopulations:
\* the statistics are those of all members.
normalize_subpopulations(ps) ==
    [k \in 1..Len(ps) |->
        [i \in 1..Len(ps[k]) |-> Scaled(ps[k][i], MinRaw(Flatten(ps)))]]

\* compare(): the data of earlier fitness calculations is removed.
ResetMember(c) ==
    [c EXCEPT !.ev = FALSE, !.raw = 0, !.failed = TRUE, !.scaled = -1]

\* remove_duplicates(): the first member of every identity is kept, in order.
RECURSIVE remove_duplicates(_)
remove_duplicates(p) ==
    IF p = <<>> THEN <<>>
    ELSE LET front == remove_duplicates(SubSeq(p, 1, Len(p) - 1))
             last  == p[Len(p)]
         IN  IF \E i \in 1..Len(front) : front[i].id = last.id
             THEN front
             ELSE Append(front, last)

\* The total order of members: scaled fitness descending, then identity.
Better(c, d) ==
    \/ c.scaled > d.scaled
    \/ c.scaled = d.scaled /\ c.id < d.id

\* The members of p, best first.
RECURSIVE Ranked(_)
Ranked(p) ==
    IF p = <<>> THEN <<>>
    ELSE LET b == CHOOSE i \in 1..Len(p) :
                    \A j \in 1..Len(p) :
                        j = i \/ Better(p[i], p[j])
                        \/ (p[i].scaled = p[j].scaled /\ p[i].id = p[j].id
                            /\ i < j)
             rest == [k \in 1..(Len(p) - 1) |-> IF k < b THEN p[k] ELSE p[k + 1]]
         IN  <<p[b]>> \o Ranked(rest)

\* gen_next_gen(pop_size) can only be served by at least pop_size members.
SelectionFails(p, n) == Len(p) < n

\* gen_next_gen(pop_size): the n best members.
gen_next_gen(p, n) == SubSeq(Ranked(p), 1, n)

\* exit(): the optional exit predicate of ga_tools on the population.
exit(p, thr) ==
    /\ thr > 0
    /\ \E i \in 1..Len(p) : p[i].ev /\ ~p[i].failed /\ p[i].raw >= thr

\* GAProgress.update(pop): the statistics of the flattened population.
Snapshot(p) ==
    LET sc == {p[i].scaled : i \in 1..Len(p)}
    IN  [n   |-> Len(p),
         min |-> IF sc = {} THEN 0 ELSE CHOOSE m \in sc : \A s \in sc : m <= s,
         max |-> IF sc = {} THEN 0 ELSE CHOOSE m \in sc : \A s \in sc : m >= s]

\* What a file written from population p holds, as far as the model follows
\* it: how many members, and how far each member has come.
Content(p) ==
    [n          |-> Len(p),
     optimized  |-> \E i \in 1..Len(p) : p[i].opt,
     evaluated  |-> \E i \in 1..Len(p) : p[i].ev,
     normalized |-> \E i \in 1..Len(p) : p[i].scaled >= 0]

\* Population.dump(path) / Population.write(dir): the file left behind.
File(dir, name, p) == [dir |-> dir, name |-> name, holds |-> Content(p)]

\* archive_output(): an ``output`` folder of the launch directory is moved
\* into ``old_output``.
Archived(path) ==
    IF Len(path) > 0 /\ path[1] = "output"
    THEN <<"old_output">> \o path
    ELSE path

archive_dirs(ds) == [i \in 1..Len(ds) |-> Archived(ds[i])]

archive_files(fs) == {[f EXCEPT !.dir = Archived(f.dir)] : f \in fs}

\* A dump found on disk by Population.load(): its members carry the
\* structures and fitness values of the run that wrote it.
LoadedMember(i, fid) ==
    IF i <= fid
    THEN [id |-> i, opt |-> TRUE, ev |-> TRUE, raw |-> 0, failed |-> TRUE,
          scaled |-> 0]
    ELSE [id |-> i, opt |-> TRUE, ev |-> TRUE, raw |-> FitnessOf(i),
          failed |-> FALSE, scaled |-> FitnessOf(i)]

\* A GATools bundle: who holds it, which of its fields are set, and how many
\* attribute assignments were made to it after its construction.
\* ga_input.ga_tools(): the bundle made from the input file.
ConfiguredTools ==
    [owner |-> "pop", input |-> TRUE, fitness |-> TRUE,
     normalization |-> TRUE, assigned |-> 0]

\* GATools.init_empty(), also the default of Population(): no field is set.
EmptyTools(owner) ==
    [owner |-> owner, input |-> FALSE, fitness |-> FALSE,
     normalization |-> FALSE, assigned |-> 0]

\* No BuildingBlock constructor is running.
\* A BuildingBlock instance right after cls.__new__(cls): no attribute is
\* set.
NewBlock ==
    [atoms |-> <<>>, bonds |-> <<>>, functional_groups |-> <<>>,
     placer_ids |-> <<>>]

BBIdle ==
    /\ bb_pc = "idle"
    /\ call = [ctor |-> "none"]
    /\ block = NewBlock
    /\ bb_raised = "none"
    /\ reader = "none"
    /\ op = [name |-> "none"]
    /\ result = <<>>

\* ---------------------------------------------------------------- Init
\* The state when __main__ is entered: nothing has run, the launch directory
\* holds no ``output`` folder, and the input file has been chosen.
Init ==
    /\ pc = "main"
    /\ entry \in {"run", "compare"}
    /\ \/ /\ entry = "run"
          /\ init_func \in {"load", "init_random"}
          /\ num_generations \in 0..MaxGen
          /\ cfgSize \in 1..MaxPop
          /\ exitThr \in {0, NumIds}
          /\ priorSnapshots \in IF init_func = "load" THEN {1, 2} ELSE {0}
          /\ cmpLeft = 0
          /\ normalization_func = TRUE
       \/ /\ entry = "compare"
          /\ init_func = "load"
          /\ num_generations = 0
          /\ cfgSize = 1
          /\ exitThr = 0
          /\ priorSnapshots = 0
          /\ cmpLeft \in 0..MaxCmp
          /\ normalization_func \in BOOLEAN
    /\ failId \in {0, 1}
    /\ pop_size = cfgSize
    /\ pop = <<>>
    /\ subpops = <<>>
    /\ sp = <<>>
    /\ offspring = <<>>
    /\ mutants = <<>>
    /\ x = 0
    /\ progress = <<>>
    /\ cwd = <<>>
    /\ dirs = <<>>
    /\ files = {}
    /\ log = <<>>
    /\ raised = "none"
    /\ ga_tools = <<>>
    /\ popObj = 0
    /\ BBIdle

\* One step of run() or compare() that only moves on to `next`, leaving the
\* event `ev` in the log.
Step(from, next, ev) ==
    /\ pc = from
    /\ pc' = next
    /\ log' = Append(log, ev)
    /\ UNCHANGED <<cfgVars, bbVars>>

\* ------------------------------------------------------------- run()
\* __main__: neither -h nor -c is given.
MainRun ==
    /\ pc = "main" /\ entry = "run"
    /\ pc' = "r_kill"
    /\ UNCHANGED <<cfgVars, bbVars, ga_tools, popObj, pop_size, pop, auxPops,
                   x, progress, fsVars, log, cmpLeft, raised>>

\* launch_dir = os.getcwd(); kill_macromodel()
RunKill ==
    /\ Step("r_kill", "r_archive", "kill")
    /\ UNCHANGED <<ga_tools, popObj, pop_size, pop, auxPops, x, progress,
                   fsVars, cmpLeft, raised>>

\* archive_output()
RunArchive ==
    /\ Step("r_archive", "r_mkoutput", "archive")
    /\ dirs' = archive_dirs(dirs)
    /\ files' = archive_files(files)
    /\ UNCHANGED <<ga_tools, popObj, pop_size, pop, auxPops, x, progress, cwd,
                   cmpLeft, raised>>

\* os.mkdir('output'); copy of the input file; os.chdir('output');
\* ga_input = GAInput(...); progress = GAProgress()
RunMkOutput ==
    /\ Step("r_mkoutput", "r_mkinitial", "mkdir")
    /\ dirs' = Append(dirs, <<"output">>)
    /\ files' = files \cup {File(<<"output">>, "input", <<>>)}
    /\ cwd' = <<"output">>
    /\ progress' = <<>>
    /\ UNCHANGED <<ga_tools, popObj, pop_size, pop, auxPops, x, cmpLeft,
                   raised>>

\* os.mkdir('initial'); os.chdir('initial')
RunMkInitial ==
    /\ Step("r_mkinitial", "r_init", "mkdir")
    /\ dirs' = Append(dirs, cwd \o <<"initial">>)
    /\ cwd' = cwd \o <<"initial">>
    /\ UNCHANGED <<ga_tools, popObj, pop_size, pop, auxPops, x, progress,
                   files, cmpLeft, raised>>

\* Mutant of InitLoad: ga_input.pop_size keeps the configured value.
InitLoad_keepSize ==
    /\ init_func = "load"
    /\ Step("r_init", "r_opt0", "load")
    /\ \E s \in SeqsUpTo(Ids, MaxInit) \ {<<>>} :
          LET p == [i \in 1..Len(s) |-> LoadedMember(s[i], failId)]
          IN  /\ pop' = p
              /\ pop_size' = pop_size
              /\ files' = files \cup {File(cwd, "structures", p)}
    /\ ga_tools' = Append(ga_tools, ConfiguredTools)
    /\ popObj' = popObj + 1
    /\ UNCHANGED <<auxPops, x, progress, cwd, dirs, cmpLeft, raised>>

\* pop_init is ``load``: the population is read back, its size becomes
\* ga_input.pop_size, and its members are written into ``initial``.
InitLoad ==
    /\ init_func = "load"
    /\ Step("r_init", "r_opt0", "load")
    /\ \E s \in SeqsUpTo(Ids, MaxInit) \ {<<>>} :
          LET p == [i \in 1..Len(s) |-> LoadedMember(s[i], failId)]
          IN  /\ pop' = p
              /\ pop_size' = Len(p)
              /\ files' = files \cup {File(cwd, "structures", p)}
    /\ ga_tools' = Append(ga_tools, ConfiguredTools)
    /\ popObj' = popObj + 1
    /\ UNCHANGED <<auxPops, x, progress, cwd, dirs, cmpLeft, raised>>

\* Mutant of InitFresh: the size of the population is tested as soon as the
\* initializer has returned it.
InitFresh_checksSize ==
    /\ init_func # "load"
    /\ pc = "r_init"
    /\ log' = Append(log, "init")
    /\ \E s \in SeqsUpTo(Ids, MaxInit) \ {<<>>} :
          /\ pop' = [i \in 1..Len(s) |-> NewMember(s[i])]
          /\ IF Len(s) # pop_size
             THEN pc' = "aborted" /\ raised' = "PopulationSizeError"
             ELSE pc' = "r_opt0" /\ raised' = raised
    /\ ga_tools' = Append(ga_tools, ConfiguredTools)
    /\ popObj' = popObj + 1
    /\ UNCHANGED <<cfgVars, bbVars, pop_size, auxPops, x, progress, fsVars,
                   cmpLeft>>

\* Any other initializer is called with size=ga_input.pop_size.
InitFresh ==
    /\ init_func # "load"
    /\ Step("r_init", "r_opt0", "init")
    /\ \E s \in SeqsUpTo(Ids, MaxInit) \ {<<>>} :
          pop' = [i \in 1..Len(s) |-> NewMember(s[i])]
    /\ ga_tools' = Append(ga_tools, ConfiguredTools)
    /\ popObj' = popObj + 1
    /\ UNCHANGED <<pop_size, auxPops, x, progress, fsVars, cmpLeft, raised>>

\* pop = Population(pop.ga_tools, *pop.optimize_population())
InitOptimize ==
    /\ Step("r_opt0", "r_eval0", "optimize")
    /\ pop' = optimize_population(pop)
    /\ popObj' = popObj + 1
    /\ UNCHANGED <<ga_tools, pop_size, auxPops, x, progress, fsVars, cmpLeft,
                   raised>>

\* Mutant of InitEvaluate: the normalization of the initial pass is left
\* out, the dump follows the fitness calculation.
InitEvaluate_thenDump ==
    /\ Step("r_eval0", "r_dump0", "evaluate")
    /\ pop' = calculate_member_fitness(pop, failId)
    /\ popObj' = popObj + 1
    /\ UNCHANGED <<ga_tools, pop_size, auxPops, x, progress, fsVars, cmpLeft,
                   raised>>

\* pop = Population(pop.ga_tools, *pop.calculate_member_fitness())
InitEvaluate ==
    /\ Step("r_eval0", "r_norm0", "evaluate")
    /\ pop' = calculate_member_fitness(pop, failId)
    /\ popObj' = popObj + 1
    /\ UNCHANGED <<ga_tools, pop_size, auxPops, x, progress, fsVars, cmpLeft,
                   raised>>

\* pop.normalize_fitness_values()
InitNormalize ==
    /\ Step("r_norm0", "r_dump0", "normalize")
    /\ pop' = normalize_fitness_values(pop)
    /\ UNCHANGED <<ga_tools, popObj, pop_size, auxPops, x, progress, fsVars,
                   cmpLeft, raised>>

\* pop.dump(os.path.join(os.getcwd(), 'pop_dump'))
InitDump ==
    /\ Step("r_dump0", "r_rec0", "dump")
    /\ files' = files \cup {File(cwd, "pop_dump", pop)}
    /\ UNCHANGED <<ga_tools, popObj, pop_size, pop, auxPops, x, progress, cwd,
                   dirs, cmpLeft, raised>>

\* progress.update(pop)
InitRecord ==
    /\ Step("r_rec0", "r_for", "record")
    /\ progress' = Append(progress, Snapshot(pop))
    /\ UNCHANGED <<ga_tools, popObj, pop_size, pop, auxPops, x, fsVars,
                   cmpLeft, raised>>

\* Mutant of ForNext: the loop is a `while not pop.exit()`, the predicate is
\* tested before every generation.
ForNext_exitFirst ==
    /\ pc = "r_for"
    /\ IF x < num_generations /\ ~exit(pop, exitThr)
       THEN x' = x + 1 /\ pc' = "g_check"
       ELSE x' = x /\ pc' = "r_endkill"
    /\ UNCHANGED <<cfgVars, bbVars, ga_tools, popObj, pop_size, pop, auxPops,
                   progress, fsVars, log, cmpLeft, raised>>

\* Mutant of ForNext: the range is one index too long.
ForNext_offByOne ==
    /\ pc = "r_for"
    /\ IF x <= num_generations
       THEN x' = x + 1 /\ pc' = "g_check"
       ELSE x' = x /\ pc' = "r_endkill"
    /\ UNCHANGED <<cfgVars, bbVars, ga_tools, popObj, pop_size, pop, auxPops,
                   progress, fsVars, log, cmpLeft, raised>>

\* Mutant of ForNext: a restarted run goes on at the index that follows the
\* snapshots of the run that wrote the dump.
ForNext_resume ==
    /\ pc = "r_for"
    /\ IF x < num_generations
       THEN /\ x' = IF x = 0 /\ init_func = "load" THEN priorSnapshots ELSE x + 1
            /\ pc' = "g_check"
       ELSE x' = x /\ pc' = "r_endkill"
    /\ UNCHANGED <<cfgVars, bbVars, ga_tools, popObj, pop_size, pop, auxPops,
                   progress, fsVars, log, cmpLeft, raised>>

\* for x in range(1, ga_input.num_generations+1): the next index, or the
\* end of the loop.
ForNext ==
    /\ pc = "r_for"
    /\ IF x < num_generations
       THEN x' = x + 1 /\ pc' = "g_check"
       ELSE x' = x /\ pc' = "r_endkill"
    /\ UNCHANGED <<cfgVars, bbVars, ga_tools, popObj, pop_size, pop, auxPops,
                   progress, fsVars, log, cmpLeft, raised>>

\* Mutant of WrongSize: the comparison never reports a difference.
WrongSize_never(p, n) == FALSE

\* len(pop) != ga_input.pop_size
WrongSize(p, n) == Len(p) # n

\* Mutant of SizeCheck: the exception passes a `finally` that runs the
\* cleanup hook and goes back to the launch directory.
SizeCheck_cleansUp ==
    /\ pc = "g_check"
    /\ IF WrongSize(pop, pop_size)
       THEN /\ pc' = "aborted" /\ raised' = "PopulationSizeError"
            /\ log' = Append(log, "kill")
            /\ cwd' = <<>>
       ELSE pc' = "g_mkdir" /\ raised' = raised /\ log' = log /\ cwd' = cwd
    /\ UNCHANGED <<cfgVars, bbVars, ga_tools, popObj, pop_size, pop, auxPops,
                   x, progress, dirs, files, cmpLeft>>

\* Mutant of SizeCheck: before the exception leaves run(), the ``output``
\* folder is archived.
SizeCheck_archives ==
    /\ pc = "g_check"
    /\ IF WrongSize(pop, pop_size)
       THEN /\ pc' = "aborted" /\ raised' = "PopulationSizeError"
            /\ dirs' = archive_dirs(dirs)
            /\ files' = archive_files(files)
            /\ cwd' = cwd
       ELSE pc' = "g_mkdir" /\ raised' = raised /\ UNCHANGED fsVars
    /\ UNCHANGED <<cfgVars, bbVars, ga_tools, popObj, pop_size, pop, auxPops,
                   x, progress, log, cmpLeft>>

\* if len(pop) != ga_input.pop_size: raise PopulationSizeError(...)
SizeCheck ==
    /\ pc = "g_check"
    /\ IF WrongSize(pop, pop_size)
       THEN pc' = "aborted" /\ raised' = "PopulationSizeError"
       ELSE pc' = "g_mkdir" /\ raised' = raised
    /\ UNCHANGED <<cfgVars, bbVars, ga_tools, popObj, pop_size, pop, auxPops,
                   x, progress, fsVars, log, cmpLeft>>

\* Mutant of GenMkdir: the directory is made where the last generation left
\* the process, without the change to the root directory.
GenMkdir_nested ==
    /\ Step("g_mkdir", "g_cross", "mkdir")
    /\ dirs' = Append(dirs, cwd \o <<str(x)>>)
    /\ cwd' = cwd \o <<str(x)>>
    /\ UNCHANGED <<ga_tools, popObj, pop_size, pop, auxPops, x, progress,
                   files, cmpLeft, raised>>

\* os.chdir(root_dir); os.mkdir(str(x)); os.chdir(str(x))
GenMkdir ==
    /\ Step("g_mkdir", "g_cross", "mkdir")
    /\ dirs' = Append(dirs, <<"output", str(x)>>)
    /\ cwd' = <<"output", str(x)>>
    /\ UNCHANGED <<ga_tools, popObj, pop_size, pop, auxPops, x, progress,
                   files, cmpLeft, raised>>

\* offspring = pop.gen_offspring()
GenCrossover ==
    /\ Step("g_cross", "g_mutate", "crossover")
    /\ \E s \in SeqsUpTo(Ids, MaxNew) :
          offspring' = [i \in 1..Len(s) |-> NewMember(s[i])]
    /\ UNCHANGED <<ga_tools, popObj, pop_size, pop, subpops, sp, mutants, x,
                   progress, fsVars, cmpLeft, raised>>

\* mutants = pop.gen_mutants()
GenMutate ==
    /\ Step("g_mutate", "g_merge", "mutate")
    /\ \E s \in SeqsUpTo(Ids, MaxNew - Len(offspring)) :
          mutants' = [i \in 1..Len(s) |-> NewMember(s[i])]
    /\ UNCHANGED <<ga_tools, popObj, pop_size, pop, subpops, sp, offspring, x,
                   progress, fsVars, cmpLeft, raised>>

\* Mutant of GenMerge: the new members are put in front of the parents.
GenMerge_kidsFirst ==
    /\ Step("g_merge", "g_dedup", "merge")
    /\ pop' = offspring \o mutants \o pop
    /\ popObj' = popObj + 1
    /\ UNCHANGED <<ga_tools, pop_size, auxPops, x, progress, fsVars, cmpLeft,
                   raised>>

\* pop += offspring + mutants
GenMerge ==
    /\ Step("g_merge", "g_dedup", "merge")
    /\ pop' = pop \o offspring \o mutants
    /\ popObj' = popObj + 1
    /\ UNCHANGED <<ga_tools, pop_size, auxPops, x, progress, fsVars, cmpLeft,
                   raised>>

\* Mutant of GenDedup: the result of remove_duplicates is bound to `pop`.
GenDedup_rebinds ==
    /\ Step("g_dedup", "g_predump", "dedup")
    /\ pop' = remove_duplicates(pop)
    /\ popObj' = popObj + 1
    /\ UNCHANGED <<ga_tools, pop_size, auxPops, x, progress, fsVars, cmpLeft,
                   raised>>

\* pop.remove_duplicates(): the result is not bound to anything, the call
\* is made for what it does to the population `pop` refers to.
GenDedup ==
    /\ Step("g_dedup", "g_predump", "dedup")
    /\ pop' = remove_duplicates(pop)
    /\ UNCHANGED <<ga_tools, popObj, pop_size, auxPops, x, progress, fsVars,
                   cmpLeft, raised>>

\* pop.dump(os.path.join(os.getcwd(), 'preselection_pop_dump'))
GenPreDump ==
    /\ Step("g_predump", "g_opt", "dump")
    /\ files' = files \cup {File(cwd, "preselection_pop_dump", pop)}
    /\ UNCHANGED <<ga_tools, popObj, pop_size, pop, auxPops, x, progress, cwd,
                   dirs, cmpLeft, raised>>

\* Mutant of GenOptimize: the fitness calculation of the generation is left
\* out, normalization follows the optimization.
GenOptimize_thenNormalize ==
    /\ Step("g_opt", "g_norm", "optimize")
    /\ pop' = optimize_population(pop)
    /\ popObj' = popObj + 1
    /\ UNCHANGED <<ga_tools, pop_size, auxPops, x, progress, fsVars, cmpLeft,
                   raised>>

\* pop = Population(pop.ga_tools, *pop.optimize_population())
GenOptimize ==
    /\ Step("g_opt", "g_eval", "optimize")
    /\ pop' = optimize_population(pop)
    /\ popObj' = popObj + 1
    /\ UNCHANGED <<ga_tools, pop_size, auxPops, x, progress, fsVars, cmpLeft,
                   raised>>

\* pop = Population(pop.ga_tools, *pop.calculate_member_fitness())
GenEvaluate ==
    /\ Step("g_eval", "g_norm", "evaluate")
    /\ pop' = calculate_member_fitness(pop, failId)
    /\ popObj' = popObj + 1
    /\ UNCHANGED <<ga_tools, pop_size, auxPops, x, progress, fsVars, cmpLeft,
                   raised>>

\* Mutant of GenNormalize: the scaled values of the last normalization are
\* kept.
GenNormalize_stale ==
    /\ Step("g_norm", "g_select", "normalize")
    /\ pop' = pop
    /\ UNCHANGED <<ga_tools, popObj, pop_size, auxPops, x, progress, fsVars,
                   cmpLeft, raised>>

\* pop.normalize_fitness_values()
GenNormalize ==
    /\ Step("g_norm", "g_select", "normalize")
    /\ pop' = normalize_fitness_values(pop)
    /\ UNCHANGED <<ga_tools, popObj, pop_size, auxPops, x, progress, fsVars,
                   cmpLeft, raised>>

\* Mutant of GenSelect: the first pop_size members are kept, whatever their
\* fitness.
GenSelect_unranked ==
    /\ pc = "g_select"
    /\ log' = Append(log, "select")
    /\ IF SelectionFails(pop, pop_size)
       THEN /\ pc' = "aborted" /\ raised' = "SelectionError"
            /\ pop' = pop /\ popObj' = popObj
       ELSE /\ pc' = "g_selected"
            /\ raised' = raised
            /\ pop' = SubSeq(pop, 1, pop_size)
            /\ popObj' = popObj + 1
    /\ UNCHANGED <<cfgVars, bbVars, ga_tools, pop_size, auxPops, x, progress,
                   fsVars, cmpLeft>>

\* Mutant of GenSelect: the result of gen_next_gen is not assigned to pop.
GenSelect_discard ==
    /\ pc = "g_select"
    /\ log' = Append(log, "select")
    /\ IF SelectionFails(pop, pop_size)
       THEN pc' = "aborted" /\ raised' = "SelectionError" /\ pop' = pop
       ELSE pc' = "g_selected" /\ raised' = raised /\ pop' = pop
    /\ popObj' = popObj
    /\ UNCHANGED <<cfgVars, bbVars, ga_tools, pop_size, auxPops, x, progress,
                   fsVars, cmpLeft>>

\* Mutant of GenSelect: a selection that cannot be served is tolerated and
\* the run goes on with the members there are.
GenSelect_tolerate ==
    /\ pc = "g_select"
    /\ log' = Append(log, "select")
    /\ pc' = "g_selected"
    /\ raised' = raised
    /\ pop' = IF SelectionFails(pop, pop_size)
              THEN Ranked(pop)
              ELSE gen_next_gen(pop, pop_size)
    /\ popObj' = popObj + 1
    /\ UNCHANGED <<cfgVars, bbVars, ga_tools, pop_size, auxPops, x, progress,
                   fsVars, cmpLeft>>

\* pop = pop.gen_next_gen(ga_input.pop_size); an exception of gen_next_gen
\* is not caught and ends run().
GenSelect ==
    /\ pc = "g_select"
    /\ log' = Append(log, "select")
    /\ IF SelectionFails(pop, pop_size)
       THEN /\ pc' = "aborted" /\ raised' = "SelectionError"
            /\ pop' = pop /\ popObj' = popObj
       ELSE /\ pc' = "g_selected"
            /\ raised' = raised
            /\ pop' = gen_next_gen(pop, pop_size)
            /\ popObj' = popObj + 1
    /\ UNCHANGED <<cfgVars, bbVars, ga_tools, pop_size, auxPops, x, progress,
                   fsVars, cmpLeft>>

\* os.mkdir('selected'); os.chdir('selected'); pop.write(os.getcwd())
GenSelected ==
    /\ Step("g_selected", "g_dump", "write")
    /\ dirs' = Append(dirs, cwd \o <<"selected">>)
    /\ cwd' = cwd \o <<"selected">>
    /\ files' = files \cup {File(cwd \o <<"selected">>, "structures", pop)}
    /\ UNCHANGED <<ga_tools, popObj, pop_size, pop, auxPops, x, progress,
                   cmpLeft, raised>>

\* pop.dump(os.path.join(os.getcwd(), 'pop_dump'))
GenDump ==
    /\ Step("g_dump", "g_rec", "dump")
    /\ files' = files \cup {File(cwd, "pop_dump", pop)}
    /\ UNCHANGED <<ga_tools, popObj, pop_size, pop, auxPops, x, progress, cwd,
                   dirs, cmpLeft, raised>>

\* Mutant of GenRecord: the newest snapshot is replaced instead of a new one
\* being appended.
GenRecord_overwrite ==
    /\ Step("g_rec", "g_exit", "record")
    /\ progress' = [progress EXCEPT ![Len(progress)] = Snapshot(pop)]
    /\ UNCHANGED <<ga_tools, popObj, pop_size, pop, auxPops, x, fsVars,
                   cmpLeft, raised>>

\* Mutant of GenRecord: the snapshot is appended a second time.
GenRecord_twice ==
    /\ Step("g_rec", "g_exit", "record")
    /\ progress' = Append(Append(progress, Snapshot(pop)), Snapshot(pop))
    /\ UNCHANGED <<ga_tools, popObj, pop_size, pop, auxPops, x, fsVars,
                   cmpLeft, raised>>

\* progress.update(pop)
GenRecord ==
    /\ Step("g_rec", "g_exit", "record")
    /\ progress' = Append(progress, Snapshot(pop))
    /\ UNCHANGED <<ga_tools, popObj, pop_size, pop, auxPops, x, fsVars,
                   cmpLeft, raised>>

\* Mutant of GenExit: the loop goes on although the predicate holds.
GenExit_nobreak ==
    /\ pc = "g_exit"
    /\ pc' = "r_for"
    /\ log' = Append(log, IF exit(pop, exitThr) THEN "exit" ELSE "noexit")
    /\ UNCHANGED <<cfgVars, bbVars, ga_tools, popObj, pop_size, pop, auxPops,
                   x, progress, fsVars, cmpLeft, raised>>

\* if pop.exit(): break
GenExit ==
    /\ pc = "g_exit"
    /\ IF exit(pop, exitThr)
       THEN pc' = "r_endkill" /\ log' = Append(log, "exit")
       ELSE pc' = "r_for" /\ log' = Append(log, "noexit")
    /\ UNCHANGED <<cfgVars, bbVars, ga_tools, popObj, pop_size, pop, auxPops,
                   x, progress, fsVars, cmpLeft, raised>>

\* kill_macromodel()
EndKill ==
    /\ Step("r_endkill", "r_plot", "kill")
    /\ UNCHANGED <<ga_tools, popObj, pop_size, pop, auxPops, x, progress,
                   fsVars, cmpLeft, raised>>

\* plot.epp(progress, os.path.join(root_dir, 'epp.png'), ...)
EndPlot ==
    /\ Step("r_plot", "r_progress", "plot")
    /\ files' = files \cup {File(<<"output">>, "epp.png", <<>>)}
    /\ UNCHANGED <<ga_tools, popObj, pop_size, pop, auxPops, x, progress, cwd,
                   dirs, cmpLeft, raised>>

\* os.chdir(root_dir); pickle.dump(progress, 'progress.dmp')
EndProgress ==
    /\ Step("r_progress", "r_tar", "progress.dmp")
    /\ cwd' = <<"output">>
    /\ files' = files \cup {File(<<"output">>, "progress.dmp", <<>>)}
    /\ UNCHANGED <<ga_tools, popObj, pop_size, pop, auxPops, x, progress,
                   dirs, cmpLeft, raised>>

\* os.chdir(launch_dir); tar_output()
EndTar ==
    /\ Step("r_tar", "r_endarchive", "tar")
    /\ cwd' = <<>>
    /\ files' = files \cup {File(<<>>, "output.tgz", <<>>)}
    /\ UNCHANGED <<ga_tools, popObj, pop_size, pop, auxPops, x, progress,
                   dirs, cmpLeft, raised>>

\* archive_output()
EndArchive ==
    /\ Step("r_endarchive", "done", "archive")
    /\ dirs' = archive_dirs(dirs)
    /\ files' = archive_files(files)
    /\ UNCHANGED <<ga_tools, popObj, pop_size, pop, auxPops, x, progress, cwd,
                   cmpLeft, raised>>

\* ---------------------------------------------------------- compare()
\* __main__: -c is given.  launch_dir = os.getcwd()
MainCompare ==
    /\ pc = "main" /\ entry = "compare"
    /\ pc' = "c_archive"
    /\ UNCHANGED <<cfgVars, bbVars, ga_tools, popObj, pop_size, pop, auxPops,
                   x, progress, fsVars, log, cmpLeft, raised>>

\* archive_output()
CmpArchive ==
    /\ Step("c_archive", "c_mkoutput", "archive")
    /\ dirs' = archive_dirs(dirs)
    /\ files' = archive_files(files)
    /\ UNCHANGED <<ga_tools, popObj, pop_size, pop, auxPops, x, progress, cwd,
                   cmpLeft, raised>>

\* os.mkdir('output'); copy of the input file; inp = GAInput(sys.argv[2])
CmpMkOutput ==
    /\ Step("c_mkoutput", "c_tools", "mkdir")
    /\ dirs' = Append(dirs, <<"output">>)
    /\ files' = files \cup {File(<<"output">>, "input", <<>>)}
    /\ UNCHANGED <<ga_tools, popObj, pop_size, pop, auxPops, x, progress, cwd,
                   cmpLeft, raised>>

\* pop = Population(); pop.ga_tools.input = inp;
\* pop.ga_tools.fitness = inp.fitness_func;
\* pop.ga_tools.normalization = Normalization(...) or None
CmpTools ==
    /\ Step("c_tools", "c_chdir", "set_tools")
    /\ pop' = <<>>
    /\ subpops' = <<>>
    /\ ga_tools' = Append(ga_tools,
                          [EmptyTools("pop") EXCEPT
                              !.input = TRUE,
                              !.fitness = TRUE,
                              !.normalization = normalization_func,
                              !.assigned = 3])
    /\ popObj' = popObj + 1
    /\ UNCHANGED <<pop_size, sp, offspring, mutants, x, progress, fsVars,
                   cmpLeft, raised>>

\* os.chdir('output')
CmpChdir ==
    /\ Step("c_chdir", "c_for", "chdir")
    /\ cwd' = <<"output">>
    /\ UNCHANGED <<ga_tools, popObj, pop_size, pop, auxPops, x, progress,
                   dirs, files, cmpLeft, raised>>

\* for i, pop_path in enumerate(inp.comparison_pops): the next entry, or the
\* end of the loop.  x holds i + 1.
CmpFor ==
    /\ pc = "c_for"
    /\ IF cmpLeft > 0
       THEN x' = x + 1 /\ pc' = "c_load"
       ELSE x' = x /\ pc' = "c_norm"
    /\ UNCHANGED <<cfgVars, bbVars, ga_tools, popObj, pop_size, pop, auxPops,
                   progress, fsVars, log, cmpLeft, raised>>

\* sp_dir = .../pop{i}
sp_dir(i) == <<"output", "pop" \o str(i)>>

\* Mutant of CmpLoad: the loaded population is given the bundle of pop, no
\* bundle of its own.
CmpLoad_sharedTools ==
    /\ Step("c_load", "c_reset", "load")
    /\ \E s \in SeqsUpTo(Ids, MaxInit) \ {<<>>} :
          sp' = [i \in 1..Len(s) |-> LoadedMember(s[i], failId)]
    /\ ga_tools' = ga_tools
    /\ UNCHANGED <<popObj, pop_size, pop, subpops, offspring, mutants, x,
                   progress, fsVars, cmpLeft, raised>>

\* sp = Population.load(pop_path, GATools.init_empty()); sp.ga_tools.fitness
\* and sp.ga_tools.normalization are those of pop.
CmpLoad ==
    /\ Step("c_load", "c_reset", "load")
    /\ \E s \in SeqsUpTo(Ids, MaxInit) \ {<<>>} :
          sp' = [i \in 1..Len(s) |-> LoadedMember(s[i], failId)]
    /\ ga_tools' = Append(ga_tools,
                          [EmptyTools("sp") EXCEPT
                              !.fitness = ga_tools[1].fitness,
                              !.normalization = ga_tools[1].normalization,
                              !.assigned = 2])
    /\ UNCHANGED <<popObj, pop_size, pop, subpops, offspring, mutants, x,
                   progress, fsVars, cmpLeft, raised>>

\* Mutant of CmpReset: only the scaled fitness is removed.
CmpReset_scaledOnly ==
    /\ Step("c_reset", "c_write", "reset")
    /\ sp' = [i \in 1..Len(sp) |-> [sp[i] EXCEPT !.scaled = -1]]
    /\ UNCHANGED <<ga_tools, popObj, pop_size, pop, subpops, offspring,
                   mutants, x, progress, fsVars, cmpLeft, raised>>

\* for ind in sp: ind.file = ...; ind.unscaled_fitness = None;
\* ind.fitness_fail = True; ind.fitness = None; ind.progress_params = None
CmpReset ==
    /\ Step("c_reset", "c_write", "reset")
    /\ sp' = [i \in 1..Len(sp) |-> ResetMember(sp[i])]
    /\ UNCHANGED <<ga_tools, popObj, pop_size, pop, subpops, offspring,
                   mutants, x, progress, fsVars, cmpLeft, raised>>

\* sp.write(sp_dir)
CmpWrite ==
    /\ Step("c_write", "c_fitness", "write")
    /\ dirs' = Append(dirs, sp_dir(x - 1))
    /\ files' = files \cup {File(sp_dir(x - 1), "structures", sp)}
    /\ UNCHANGED <<ga_tools, popObj, pop_size, pop, auxPops, x, progress, cwd,
                   cmpLeft, raised>>

\* sp = Population(*sp.calculate_member_fitness(), sp.ga_tools)
CmpFitness ==
    /\ Step("c_fitness", "c_attach", "evaluate")
    /\ sp' = calculate_member_fitness(sp, failId)
    /\ UNCHANGED <<ga_tools, popObj, pop_size, pop, subpops, offspring,
                   mutants, x, progress, fsVars, cmpLeft, raised>>

\* pop.add_subpopulation(sp)
CmpAttach ==
    /\ Step("c_attach", "c_for", "attach")
    /\ subpops' = Append(subpops, sp)
    /\ cmpLeft' = cmpLeft - 1
    /\ UNCHANGED <<ga_tools, popObj, pop_size, pop, sp, offspring, mutants, x,
                   progress, fsVars, raised>>

\* if inp.normalization_func: pop.normalize_fitness_values();
\*                            plot.progress_params(pop, ...)
CmpNormalize ==
    /\ pc = "c_norm"
    /\ pc' = "c_plot"
    /\ IF normalization_func
       THEN /\ subpops' = normalize_subpopulations(subpops)
            /\ log' = Append(log, "normalize")
            /\ files' = files \cup {File(cwd, "param_comparison.png", <<>>)}
       ELSE UNCHANGED <<subpops, log, files>>
    /\ UNCHANGED <<cfgVars, bbVars, ga_tools, popObj, pop_size, pop, sp,
                   offspring, mutants, x, progress, cwd, dirs, cmpLeft,
                   raised>>

\* plot.subpopulations(pop, 'fitness_comparison.png')
CmpPlot ==
    /\ Step("c_plot", "c_endarchive", "plot")
    /\ files' = files \cup {File(cwd, "fitness_comparison.png", <<>>)}
    /\ UNCHANGED <<ga_tools, popObj, pop_size, pop, auxPops, x, progress, cwd,
                   dirs, cmpLeft, raised>>

\* os.chdir(launch_dir); archive_output()
CmpEndArchive ==
    /\ Step("c_endarchive", "done", "archive")
    /\ cwd' = <<>>
    /\ dirs' = archive_dirs(dirs)
    /\ files' = archive_files(files)
    /\ UNCHANGED <<ga_tools, popObj, pop_size, pop, auxPops, x, progress,
                   cmpLeft, raised>>

CompareNext ==
    \/ MainCompare \/ CmpArchive \/ CmpMkOutput \/ CmpTools \/ CmpChdir
    \/ CmpFor \/ CmpLoad \/ CmpReset \/ CmpWrite \/ CmpFitness \/ CmpAttach
    \/ CmpNormalize \/ CmpPlot \/ CmpEndArchive

RunNext ==
    \/ MainRun \/ RunKill \/ RunArchive \/ RunMkOutput \/ RunMkInitial
    \/ InitLoad \/ InitFresh \/ InitOptimize \/ InitEvaluate \/ InitNormalize
    \/ InitDump \/ InitRecord \/ ForNext \/ SizeCheck \/ GenMkdir
    \/ GenCrossover \/ GenMutate \/ GenMerge \/ GenDedup \/ GenPreDump
    \/ GenOptimize \/ GenEvaluate \/ GenNormalize \/ GenSelect \/ GenSelected
    \/ GenDump \/ GenRecord \/ GenExit \/ EndKill \/ EndPlot \/ EndProgress
    \/ EndTar \/ EndArchive

Next == RunNext \/ CompareNext

Spec == Init /\ [][Next]_vars

\* The interpreter runs run() and compare() statement by statement: a
\* statement that can be executed is executed.
FairSpec == Spec /\ WF_vars(Next)

\* ------------------------------------------------------------ GenSpec
\* One generation of a fresh run, from the merge to the survivor selection,
\* on populations over more identities than Spec follows.
\* The stages of generation 1 up to the mutation, as they are logged.
LogAtMerge ==
    <<"kill", "archive", "mkdir", "mkdir", "init", "optimize", "evaluate",
      "normalize", "dump", "record", "mkdir", "crossover", "mutate">>

\* The state of run() when generation 1 is about to merge: the initial
\* population has passed the size check, offspring and mutants are made.
GenInit ==
    /\ pc = "g_merge"
    /\ entry = "run"
    /\ init_func = "init_random"
    /\ num_generations = 1
    /\ cfgSize \in 1..MaxPop
    /\ pop_size = cfgSize
    /\ exitThr = 0
    /\ failId \in {0, 2}
    /\ priorSnapshots = 0
    /\ cmpLeft = 0
    /\ normalization_func = TRUE
    /\ \E s \in [1..pop_size -> Cands] :
          pop = normalize_fitness_values(
                    calculate_member_fitness(
                        optimize_population(
                            [i \in 1..Len(s) |-> NewMember(s[i])]),
                        failId))
    /\ \E o \in SeqsUpTo(Cands, MaxKids) :
          /\ offspring = [i \in 1..Len(o) |-> NewMember(o[i])]
          /\ \E m \in SeqsUpTo(Cands, MaxKids - Len(o)) :
                mutants = [i \in 1..Len(m) |-> NewMember(m[i])]
    /\ subpops = <<>>
    /\ sp = <<>>
    /\ x = 1
    /\ progress = <<Snapshot(pop)>>
    /\ cwd = <<"output", "1">>
    /\ dirs = << <<"output">>, <<"output", "initial">>, <<"output", "1">> >>
    /\ files = {File(<<"output">>, "input", <<>>),
                File(<<"output", "initial">>, "pop_dump", pop)}
    /\ log = LogAtMerge
    /\ raised = "none"
    /\ ga_tools = <<ConfiguredTools>>
    /\ popObj = 3
    /\ BBIdle

GenNext ==
    \/ GenMerge \/ GenDedup \/ GenPreDump \/ GenOptimize \/ GenEvaluate
    \/ GenNormalize \/ GenSelect

GenSpec == GenInit /\ [][GenNext]_vars

\* ------------------------------------------------------------- BBSpec
\* The constructors of BuildingBlock.  An atom is its id; the atoms of a
\* molecule of n atoms are 0 .. n-1 in this order (Atom(a.GetIdx(), ...)).
AtomsOf(n) == [i \in 1..n |-> i - 1]

\* A bond is the pair of the ids of its atoms; the molecule of n atoms is a
\* chain.
BondsOf(n) == [i \in 1..(n - 1) |-> <<i - 1, i>>]

\* The sequences over S of at most n elements, none twice.
InjSeqsUpTo(S, n) ==
    {s \in SeqsUpTo(S, n) : \A i, j \in 1..Len(s) : s[i] = s[j] => i = j}

\* A FunctionalGroup, as far as BuildingBlock reads it: the ids that its
\* get_placer_ids() yields.
FunctionalGroups(n) ==
    {[placers |-> s] : s \in InjSeqsUpTo(0..(n - 1), n) \ {<<>>}}

\* An entry of a `functional_groups` argument: a FunctionalGroup, or a
\* FunctionalGroupFactory that finds no group or one group at every atom.
FgEntries(n) ==
    {[kind |-> "fg", fg |-> g, finds |-> "none"] : g \in FunctionalGroups(n)}
    \cup {[kind |-> "factory", fg |-> [placers |-> <<>>], finds |-> f] :
            f \in {"none", "each"}}

\* The values of a `functional_groups` argument: an iterable of entries, or
\* one entry that is not in an iterable.
FgArguments(n) ==
    {[iterable |-> TRUE, entries |-> es] : es \in SeqsUpTo(FgEntries(n), MaxFgs)}
    \cup {[iterable |-> FALSE, entries |-> <<e>>] : e \in FgEntries(n)}

\* The values of a `placer_ids` argument: None, or a tuple of atom ids.
PlacerArguments(n) ==
    {[given |-> FALSE, ids |-> <<>>]}
    \cup {[given |-> TRUE, ids |-> s] : s \in InjSeqsUpTo(0..(n - 1), n)}

\* The constructors, and what each is called with beside the functional
\* groups and the placer ids.
Constructors ==
    {"__init__", "init", "init_from_molecule", "init_from_file",
     "init_from_rdkit_mol", "init_from_vabene_molecule"}

\* _init_funcs: the reader registered for each supported extension.
init_funcs ==
    [e \in {".mol", ".sdf", ".pdb"} |->
        IF e = ".pdb" THEN "MolFromPDBFile" ELSE "MolFromMolFile"]

\* The keys of BuildingBlock._init_funcs.
InitFuncs == DOMAIN init_funcs

\* File extensions a path can have.
Extensions == InitFuncs \cup {".xyz", ""}

\* FunctionalGroupFactory.get_functional_groups(molecule)
FactoryGroups(e, atoms) ==
    IF e.finds = "each"
    THEN [i \in 1..Len(atoms) |-> [placers |-> <<atoms[i]>>]]
    ELSE <<>>

\* utilities.flatten: the elements of the sequences in ss, in order.
RECURSIVE flatten(_)
flatten(ss) == IF ss = <<>> THEN <<>> ELSE Head(ss) \o flatten(Tail(ss))

\* BuildingBlock._extract_functional_groups: the functional groups held in
\* the argument or made by its factories, in the order of the argument.
extract_functional_groups(arg, atoms) ==
    flatten([i \in 1..Len(arg.entries) |->
                IF arg.entries[i].kind = "fg"
                THEN <<arg.entries[i].fg>>
                ELSE FactoryGroups(arg.entries[i], atoms)])

\* FunctionalGroup.with_atoms(atom_map): the atoms are replaced by those of
\* the building block with the same ids.
with_atoms(fg, atoms) == fg

\* BuildingBlock._with_functional_groups
with_functional_groups_(b, fgs) ==
    [b EXCEPT !.functional_groups =
                  [i \in 1..Len(fgs) |-> with_atoms(fgs[i], b.atoms)]]

\* Mutant of normalize_placer_ids: the functional groups are looked at
\* before the argument.
normalize_placer_ids_groupsFirst(b, placer_ids, functional_groups) ==
    IF functional_groups # <<>>
    THEN flatten([i \in 1..Len(functional_groups) |->
                     functional_groups[i].placers])
    ELSE IF placer_ids.given
         THEN placer_ids.ids
         ELSE b.atoms

\* BuildingBlock._normalize_placer_ids
normalize_placer_ids(b, placer_ids, functional_groups) ==
    IF placer_ids.given
    THEN placer_ids.ids
    ELSE IF functional_groups # <<>>
         THEN flatten([i \in 1..Len(functional_groups) |->
                          functional_groups[i].placers])
         ELSE b.atoms

\* run() and compare() are not running.
MainIdle ==
    /\ pc = "idle"
    /\ entry = "none"
    /\ init_func = "none"
    /\ num_generations = 0
    /\ cfgSize = 0
    /\ pop_size = 0
    /\ exitThr = 0
    /\ failId = 0
    /\ priorSnapshots = 0
    /\ cmpLeft = 0
    /\ normalization_func = FALSE
    /\ pop = <<>>
    /\ subpops = <<>>
    /\ sp = <<>>
    /\ offspring = <<>>
    /\ mutants = <<>>
    /\ x = 0
    /\ progress = <<>>
    /\ cwd = <<>>
    /\ dirs = <<>>
    /\ files = {}
    /\ log = <<>>
    /\ raised = "none"
    /\ ga_tools = <<>>
    /\ popObj = 0

mainVars ==
    <<cfgVars, pc, pop_size, pop, auxPops, x, progress, fsVars, log, cmpLeft,
      raised, ga_tools, popObj>>

\* A constructor of BuildingBlock is called: on a molecule of natoms atoms
\* (hydrogens included), with a `functional_groups` and a `placer_ids`
\* argument; init_from_file with a path, __init__ and
\* init_from_vabene_molecule with an embedding that works or fails.
BBInit ==
    /\ MainIdle
    /\ bb_pc = "call"
    /\ \E c \in Constructors, n \in 1..MaxAtoms :
          \E fgs \in FgArguments(n), pl \in PlacerArguments(n),
             ext \in Extensions, emb \in BOOLEAN :
              /\ c # "init_from_file" => ext = ""
              /\ c \notin {"__init__", "init_from_vabene_molecule"} => emb
              /\ call = [ctor |-> c, natoms |-> n, functional_groups |-> fgs,
                         placer_ids |-> pl, extension |-> ext, embeds |-> emb]
    /\ block = NewBlock
    /\ bb_raised = "none"
    /\ reader = "none"
    /\ op = [name |-> "none"]
    /\ result = <<>>

\* __init__ and init_from_vabene_molecule: the rdkit molecule is made and
\* embedded (RuntimeError when that fails), then handed on.
BBEmbed ==
    /\ bb_pc = "call"
    /\ call.ctor \in {"__init__", "init_from_vabene_molecule"}
    /\ IF call.embeds
       THEN bb_pc' = "rdkit" /\ bb_raised' = bb_raised
       ELSE bb_pc' = "raised" /\ bb_raised' = "RuntimeError"
    /\ UNCHANGED <<mainVars, reader, op, result, call, block>>

BBFromFile_readsFirst ==
    /\ bb_pc = "call"
    /\ call.ctor = "init_from_file"
    /\ reader' = IF call.extension = ".pdb"
                 THEN "MolFromPDBFile" ELSE "MolFromMolFile"
    /\ IF call.extension \notin InitFuncs
       THEN bb_pc' = "raised" /\ bb_raised' = "ValueError"
       ELSE bb_pc' = "rdkit" /\ bb_raised' = bb_raised
    /\ UNCHANGED <<mainVars, op, result, call, block>>

\* init_from_file: ValueError for an extension that is no key of
\* _init_funcs, else the molecule is read and handed on.
BBFromFile ==
    /\ bb_pc = "call"
    /\ call.ctor = "init_from_file"
    /\ IF call.extension \notin InitFuncs
       THEN /\ bb_pc' = "raised" /\ bb_raised' = "ValueError"
            /\ reader' = reader
       ELSE /\ bb_pc' = "rdkit" /\ bb_raised' = bb_raised
            /\ reader' = init_funcs[call.extension]
    /\ UNCHANGED <<mainVars, op, result, call, block>>

\* init_from_rdkit_mol: building_block = cls.__new__(cls)
BBFromRdkit ==
    /\ bb_pc = "call"
    /\ call.ctor = "init_from_rdkit_mol"
    /\ bb_pc' = "rdkit"
    /\ block' = NewBlock
    /\ UNCHANGED <<mainVars, reader, op, result, call, bb_raised>>

\* init_from_molecule: return cls.init(atoms=..., bonds=..., ...)
BBFromMolecule ==
    /\ bb_pc = "call"
    /\ call.ctor = "init_from_molecule"
    /\ bb_pc' = "init"
    /\ UNCHANGED <<mainVars, reader, op, result, call, block, bb_raised>>

\* _init_from_rdkit_mol: atoms, bonds and position matrix are taken from
\* the rdkit molecule; super().__init__(atoms, bonds, position_matrix)
RdkitMolecule ==
    /\ bb_pc = "rdkit"
    /\ bb_pc' = "r_fgs"
    /\ block' = [block EXCEPT !.atoms = AtomsOf(call.natoms),
                              !.bonds = BondsOf(call.natoms)]
    /\ UNCHANGED <<mainVars, reader, op, result, call, bb_raised>>

\* self._with_functional_groups(self._extract_functional_groups(...))
RdkitGroups ==
    /\ bb_pc = "r_fgs"
    /\ bb_pc' = "r_placers"
    /\ block' = with_functional_groups_(
                    block,
                    extract_functional_groups(call.functional_groups,
                                              block.atoms))
    /\ UNCHANGED <<mainVars, reader, op, result, call, bb_raised>>

\* self._placer_ids = self._normalize_placer_ids(...)
RdkitPlacers ==
    /\ bb_pc = "r_placers"
    /\ bb_pc' = "built"
    /\ block' = [block EXCEPT !.placer_ids =
                    normalize_placer_ids(block, call.placer_ids,
                                         block.functional_groups)]
    /\ UNCHANGED <<mainVars, reader, op, result, call, bb_raised>>

\* init: building_block = cls.__new__(cls); Molecule.__init__(...)
InitMolecule ==
    /\ \/ bb_pc = "call" /\ call.ctor = "init"
       \/ bb_pc = "init"
    /\ bb_pc' = "i_fgs"
    /\ block' = [NewBlock EXCEPT !.atoms = AtomsOf(call.natoms),
                                 !.bonds = BondsOf(call.natoms)]
    /\ UNCHANGED <<mainVars, reader, op, result, call, bb_raised>>

\* functional_groups = building_block._extract_functional_groups(...);
\* building_block._with_functional_groups(functional_groups)
InitGroups ==
    /\ bb_pc = "i_fgs"
    /\ bb_pc' = "i_placers"
    /\ block' = with_functional_groups_(
                    block,
                    extract_functional_groups(call.functional_groups,
                                              block.atoms))
    /\ UNCHANGED <<mainVars, reader, op, result, call, bb_raised>>

\* building_block._placer_ids = building_block._normalize_placer_ids(...)
InitPlacers ==
    /\ bb_pc = "i_placers"
    /\ bb_pc' = "built"
    /\ block' = [block EXCEPT !.placer_ids =
                    normalize_placer_ids(block, call.placer_ids,
                                         block.functional_groups)]
    /\ UNCHANGED <<mainVars, reader, op, result, call, bb_raised>>

BBNext ==
    \/ BBEmbed \/ BBFromFile \/ BBFromRdkit \/ BBFromMolecule
    \/ RdkitMolecule \/ RdkitGroups \/ RdkitPlacers
    \/ InitMolecule \/ InitGroups \/ InitPlacers

BBSpec == BBInit /\ [][BBNext]_vars

\* ------------------------------------------------------------ BBUseSpec
\* The methods of a constructed BuildingBlock.  A behaviour starts from a
\* building block that `init` has returned and calls one method on it.
\* Functional groups of one placer atom each are enough to tell them apart.
PlainGroups(n) == {[placers |-> <<a>>] : a \in 0..(n - 1)}

\* The building block that BuildingBlock.init returns for the call c.
init(c) ==
    LET made == [NewBlock EXCEPT !.atoms = AtomsOf(c.natoms),
                                 !.bonds = BondsOf(c.natoms)]
        grouped == with_functional_groups_(
                       made,
                       extract_functional_groups(c.functional_groups,
                                                 made.atoms))
    IN  [grouped EXCEPT !.placer_ids =
            normalize_placer_ids(grouped, c.placer_ids,
                                 grouped.functional_groups)]

\* Molecule.clone: a new object with the atoms and bonds of the original.
Molecule_clone(b) ==
    [NewBlock EXCEPT !.atoms = b.atoms, !.bonds = b.bonds]

\* BuildingBlock.clone
clone(b) ==
    [Molecule_clone(b) EXCEPT !.functional_groups = b.functional_groups,
                              !.placer_ids = b.placer_ids]

\* Mutant of with_functional_groups: the placer ids of the clone are worked
\* out again from the functional groups it is given.
with_functional_groups_renormalized(b, functional_groups) ==
    LET c == with_functional_groups_(clone(b), functional_groups)
    IN  [c EXCEPT !.placer_ids =
            normalize_placer_ids(c, [given |-> FALSE, ids |-> <<>>],
                                 c.functional_groups)]

\* BuildingBlock.with_functional_groups
with_functional_groups(b, functional_groups) ==
    with_functional_groups_(clone(b), functional_groups)

\* The values of the fg_ids argument of get_functional_groups: None, one
\* int, or an iterable of ints.
FgIdArguments ==
    {[kind |-> "None", ids |-> <<>>]}
    \cup {[kind |-> "int", ids |-> <<k>>] : k \in 0..(MaxFgs - 1)}
    \cup {[kind |-> "iterable", ids |-> s] :
            s \in SeqsUpTo(0..(MaxFgs - 1), MaxIds)}

\* get_functional_groups, before its loop: the ids it will go through.
fg_ids(arg, b) ==
    IF arg.kind = "None"
    THEN [i \in 1..Len(b.functional_groups) |-> i - 1]
    ELSE arg.ids

BBUseInit ==
    /\ MainIdle
    /\ bb_pc = "built"
    /\ \E n \in 1..MaxAtoms :
          \E fgs \in SeqsUpTo(PlainGroups(n), MaxFgs),
             pl \in PlacerArguments(n) :
              call = [ctor |-> "init", natoms |-> n,
                      functional_groups |->
                          [iterable |-> TRUE,
                           entries |-> [i \in 1..Len(fgs) |->
                                           [kind |-> "fg", fg |-> fgs[i],
                                            finds |-> "none"]]],
                      placer_ids |-> pl, extension |-> "", embeds |-> TRUE]
    /\ block = init(call)
    /\ bb_raised = "none"
    /\ reader = "none"
    /\ op = [name |-> "none"]
    /\ result = <<>>

\* building_block.get_functional_groups(fg_ids) is called and iterated.
GetFunctionalGroups ==
    /\ bb_pc = "built"
    /\ op.name = "none"
    /\ \E arg \in FgIdArguments :
          op' = [name |-> "get_functional_groups", arg |-> arg,
                 fg_ids |-> fg_ids(arg, block)]
    /\ result' = <<>>
    /\ UNCHANGED <<mainVars, reader, call, block, bb_pc, bb_raised>>

\* for fg_id in fg_ids: yield self._functional_groups[fg_id]
\* What is yielded is written down with the id it was taken at.
YieldFunctionalGroup ==
    /\ op.name = "get_functional_groups"
    /\ bb_raised = "none"
    /\ Len(result) < Len(op.fg_ids)
    /\ LET fg_id == op.fg_ids[Len(result) + 1]
       IN  IF fg_id < Len(block.functional_groups)
           THEN /\ result' = Append(result,
                                [id |-> fg_id,
                                 fg |-> block.functional_groups[fg_id + 1]])
                /\ bb_raised' = bb_raised
           ELSE /\ result' = result
                /\ bb_raised' = "IndexError"
    /\ UNCHANGED <<mainVars, reader, call, block, bb_pc, op>>

\* clone = building_block.with_functional_groups(functional_groups)
WithFunctionalGroups ==
    /\ bb_pc = "built"
    /\ op.name = "none"
    /\ \E fgs \in SeqsUpTo(PlainGroups(call.natoms), MaxFgs) :
          /\ op' = [name |-> "with_functional_groups",
                    functional_groups |-> fgs]
          /\ result' = <<with_functional_groups(block, fgs)>>
    /\ UNCHANGED <<mainVars, reader, call, block, bb_pc, bb_raised>>

BBUseNext ==
    GetFunctionalGroups \/ YieldFunctionalGroup \/ WithFunctionalGroups

BBUseSpec == BBUseInit /\ [][BBUseNext]_vars

\* ===================================================================
\* Properties
\* ===================================================================
\* Positions of run() inside VARY of generation x: from the creation of the
\* generation directory to the merge of offspring and mutants.
VaryPcs == {"g_mkdir", "g_cross", "g_mutate", "g_merge"}

\* Positions of run() between survivor selection and the next loop test.
SelectedPcs == {"g_selected", "g_dump", "g_rec", "g_exit"}

\* Positions of run() after the generation loop.
EndPcs == {"r_endkill", "r_plot", "r_progress", "r_tar", "r_endarchive", "done"}

\* Events that belong to a generation.
GenEvents ==
    {"mkdir", "crossover", "mutate", "merge", "dedup", "dump", "optimize",
     "evaluate", "normalize", "select", "write", "record", "exit", "noexit"}

\* How often event e is in the log.
EventCount(e) == Cardinality({i \in 1..Len(log) : log[i] = e})

\* The generation indices that have a directory (in ``output`` or, once
\* archived, in ``old_output``).
GenerationDirs ==
    {k \in 1..MaxGen :
        \/ <<"output", str(k)>> \in Range(dirs)
        \/ <<"old_output", "output", str(k)>> \in Range(dirs)}

\* C1: variation (directory creation, crossover, mutation, merge) of a
\* generation only ever runs on a population whose size is pop_size; a
\* population of another size at the top of generation x ends run() with
\* PopulationSizeError before a directory for x exists and before any
\* crossover or mutation of x.
C1_SizeCheckedBeforeVary ==
    /\ pc \in VaryPcs => Len(pop) = pop_size
    /\ raised = "PopulationSizeError" =>
          /\ pc = "aborted"
          /\ Len(pop) # pop_size
          /\ x \notin GenerationDirs
          /\ EventCount("crossover") = x - 1
          /\ EventCount("mutate") = x - 1

\* C1 witness: the size check has stopped a run whose population had the
\* wrong size.
C1_Witness ==
    /\ raised = "PopulationSizeError"
    /\ x = 1
    /\ Len(pop) > pop_size

C3_ExitStopsRun ==
    [][ /\ pc = "g_exit" =>
              /\ pc' = IF exit(pop, exitThr) THEN "r_endkill" ELSE "r_for"
              /\ pop' = pop
        /\ "exit" \in Range(log) =>
              /\ pc' \in EndPcs
              /\ pop' = pop
              /\ x' = x
              /\ progress' = progress
              /\ Len(dirs') = Len(dirs)
              /\ log'[Len(log')] \notin GenEvents
      ]_vars

\* C3 witness: the predicate held after a generation that was not the last
\* one, and the run has ended.
C3_Witness ==
    /\ "exit" \in Range(log)
    /\ pc = "done"
    /\ x < num_generations

\* The run of the scenario of C4: three generations are configured and the
\* exit predicate held at its first evaluation, i.e. after generation 1;
\* the run has ended.
C4_Scenario ==
    /\ entry = "run"
    /\ num_generations = 3
    /\ pc = "done"
    /\ "exit" \in Range(log)
    /\ "noexit" \notin Range(log)

\* C4 as stated: the scenario leaves 2 generation directories, ``initial``
\* not counted.
C4_Original == C4_Scenario => Cardinality(GenerationDirs) = 2

\* C4 as amended: the scenario leaves exactly 1 generation directory, that
\* of generation 1, beside ``initial`` (2 directories with ``initial``).
C4_OneGenerationDir ==
    C4_Scenario =>
        /\ GenerationDirs = {1}
        /\ <<"old_output", "output", "initial">> \in Range(dirs)
        /\ Cardinality({i \in 1..Len(dirs) : Len(dirs[i]) = 3}) = 2

\* C4 witness: the scenario has happened.
C4_Witness == C4_Scenario /\ x = 1

\* C5 (count): when run() reaches its end phase it has executed
\* num_generations generations if the exit predicate never held, and
\* otherwise as many as the index of the first generation after which it
\* held, which is at most num_generations.
C5_Generations ==
    (entry = "run" /\ pc \in EndPcs) =>
        /\ EventCount("select") = x
        /\ x <= num_generations
        /\ IF "exit" \in Range(log)
           THEN EventCount("noexit") = x - 1 /\ EventCount("exit") = 1
           ELSE EventCount("noexit") = x /\ x = num_generations

\* C5: the count above holds at every moment, and every execution ends
\* (normally, or with the exception that aborted it).
C5_GenerationsAndTermination ==
    /\ []C5_Generations
    /\ <>(pc \in {"done", "aborted"})

\* C5 witness: a run without exit predicate has ended after all of its
\* configured generations.
C5_Witness ==
    /\ entry = "run"
    /\ pc = "done"
    /\ exitThr = 0
    /\ num_generations = MaxGen
    /\ x = num_generations

\* The size of the population that ``load`` restored: what was written
\* into ``initial`` right after loading.
RestoredSizes ==
    {f.holds.n : f \in {g \in files :
        /\ g.name = "structures"
        /\ g.dir \in {<<"output", "initial">>,
                      <<"old_output", "output", "initial">>}}}

\* C6: in restart mode, from the load on, pop_size is the size of the
\* restored population, whatever size was configured; the populations that
\* pass the size check and the populations that selection returns have
\* that size.
C6_RestartFixesPopSize ==
    (entry = "run" /\ init_func = "load" /\ pc \notin {"main", "r_kill",
        "r_archive", "r_mkoutput", "r_mkinitial", "r_init"}) =>
        /\ RestoredSizes = {pop_size}
        /\ pc \in VaryPcs \cup SelectedPcs => Len(pop) = pop_size

\* C6 witness: a restarted run has selected survivors while the configured
\* size differs from the restored one.
C6_Witness ==
    /\ init_func = "load"
    /\ pc = "g_selected"
    /\ pop_size # cfgSize
    /\ Len(pop) = pop_size

\* The first generation of a restarted run is about to begin.
C7_Resumes ==
    /\ entry = "run"
    /\ init_func = "load"
    /\ pc = "g_check"
    /\ "select" \notin Range(log)

\* C7 as stated: a restarted run goes on at the generation index given by
\* the number of snapshots of the restored tracker.
C7_Original == C7_Resumes => x = priorSnapshots

\* C7 as amended: a restarted run starts at generation 1 with a tracker
\* that holds only the snapshot of the restored population, whatever the
\* tracker of the run that wrote the dump held.
C7_RestartBeginsAtOne == C7_Resumes => x = 1 /\ Len(progress) = 1

\* C7 witness: a run restarted from a dump whose run had recorded two
\* snapshots begins its first generation.
C7_Witness == C7_Resumes /\ priorSnapshots = 2 /\ x = 1

\* The directory ``selected`` of generation k.
SelectedDir(k) == <<"output", str(k), "selected">>

\* C8: a selection asked for more members than there are ends run() at
\* the selection step: the population is left as it was, generation x
\* gets no ``selected`` directory and no file in it, and no snapshot of
\* generation x is recorded.
C8_UndersizedSelectionAborts ==
    /\ [](raised = "SelectionError" =>
            /\ pc = "aborted"
            /\ Len(pop) < pop_size
            /\ SelectedDir(x) \notin Range(dirs)
            /\ \A f \in files : f.dir # SelectedDir(x)
            /\ Len(progress) = x)
    /\ [][(pc = "g_select" /\ Len(pop) < pop_size) =>
            (pc' = "aborted" /\ pop' = pop /\ UNCHANGED <<fsVars, progress>>)
         ]_vars

\* C8 witness: duplicates were removed from a population of pop_size
\* members, no new identity came in, and selection failed.
C8_Witness ==
    /\ raised = "SelectionError"
    /\ Len(pop) < pop_size

\* The directory moves.
MoveEvents == {"archive", "tar"}

\* C9 as stated: every directory move (archive_output, tar_output) of
\* run() and of compare() comes after a call of kill_macromodel, with no
\* optimization and no fitness calculation between that call and the move.
C9_CleanupBeforeMove ==
    \A i \in 1..Len(log) :
        log[i] \in MoveEvents =>
            \E j \in 1..(i - 1) :
                /\ log[j] = "kill"
                /\ \A k \in (j + 1)..(i - 1) :
                      log[k] \notin {"optimize", "evaluate"}

\* C10: whenever run() is about to normalize, in the initial pass and in
\* every generation, the two stages before it were the optimization and
\* then the fitness calculation, and every member of the population has an
\* optimized structure and either a raw fitness or a failure mark.
C10_NormalizeAfterEvaluate ==
    pc \in {"r_norm0", "g_norm"} =>
        /\ Len(log) >= 2
        /\ log[Len(log) - 1] = "optimize"
        /\ log[Len(log)] = "evaluate"
        /\ \A i \in 1..Len(pop) :
              /\ pop[i].opt
              /\ pop[i].ev
              /\ pop[i].failed \/ pop[i].raw > 0

\* C10 witness: a generation is about to normalize a population that holds
\* members made in this generation.
C10_Witness ==
    /\ pc = "g_norm"
    /\ Len(pop) > pop_size
    /\ \E i \in 1..Len(pop) : pop[i].failed

\* The last n events of the log.
LastEvents(n) == SubSeq(log, Len(log) - n + 1, Len(log))

\* The scaled values of population p are relative to p itself: the
\* successfully evaluated members differ in scaled fitness as they differ
\* in raw fitness, the smallest of them has 1, and every other member has
\* the worst value 0.
ScaledWithin(p) ==
    LET ok == {i \in 1..Len(p) : p[i].ev /\ ~p[i].failed}
    IN  /\ \A i \in (1..Len(p)) \ ok : p[i].scaled = 0
        /\ ok # {} => \E i \in ok : p[i].scaled = 1
        /\ \A i, j \in ok : p[i].scaled - p[j].scaled = p[i].raw - p[j].raw

\* C11: whenever survivor selection is about to run, the stages before it
\* in that generation were merge, deduplication, (dump,) optimization,
\* fitness calculation and normalization, in this order, and the scaled
\* values of all members (parents, offspring, mutants) are those of a
\* normalization over this merged population, not over an earlier one.
C11_SelectionOnFreshScores ==
    pc = "g_select" =>
        /\ Len(log) >= 6
        /\ LastEvents(6) = <<"merge", "dedup", "dump", "optimize", "evaluate",
                             "normalize">>
        /\ ScaledWithin(pop)

\* C11 witness: in the second generation a new member with a smaller raw
\* fitness has joined, so that the scaled value of the parent has changed.
C11_Witness ==
    /\ pc = "g_select"
    /\ x = 2
    /\ pop_size = 1
    /\ Len(pop) = 2
    /\ pop[1].scaled = 2
    /\ pop[2].scaled = 1

\* Positions of run() inside the checkpoint of generation x.
CheckpointPcs == {"g_selected", "g_dump", "g_rec"}

\* C12: when the exit predicate of generation x is about to be evaluated,
\* the stages since the selection were, in this order, the writing of the
\* survivors into the generation's ``selected`` directory, the dump of the
\* population and one progress snapshot; the files and the snapshot are
\* those of the population that selection returned, which no stage of the
\* checkpoint changes.
C12_CheckpointOrder ==
    /\ [](pc = "g_exit" =>
            /\ LastEvents(4) = <<"select", "write", "dump", "record">>
            /\ {f \in files : f.dir = SelectedDir(x)} =
                  {File(SelectedDir(x), "structures", pop),
                   File(SelectedDir(x), "pop_dump", pop)}
            /\ Len(progress) = x + 1
            /\ progress[Len(progress)] = Snapshot(pop))
    /\ [](pc \in CheckpointPcs => Len(progress) = x)
    /\ [][(pc \in CheckpointPcs) => (pop' = pop)]_vars

\* C12 witness: the checkpoint of the second generation is complete.
C12_Witness ==
    /\ pc = "g_exit"
    /\ x = 2
    /\ Len(progress) = 3
    /\ Len(pop) = 2

CheckpointInPlace(k) ==
    LET d == IF k = 0 THEN <<"output", "initial">> ELSE SelectedDir(k)
    IN  /\ d \in Range(dirs)
        /\ Cardinality({f \in files : f.dir = d /\ f.name = "pop_dump"}) = 1
        /\ k > 0 =>
              Cardinality({f \in files : f.dir = d /\ f.name = "structures"}) = 1

\* C14: when PopulationSizeError has ended run() at the top of generation
\* x, the checkpoints of the generations before x (that of ``initial``
\* included) are in place as they were written: nothing has been moved out
\* of ``output``, no file has been written twice, the newest dump is that
\* of the population at hand, and there is no directory and no file of
\* generation x.  The size check itself leaves the file system untouched.
C14_AbortPreservesCheckpoint ==
    /\ [](raised = "PopulationSizeError" =>
            /\ pc = "aborted"
            /\ \A k \in 0..(x - 1) : CheckpointInPlace(k)
            /\ \A i \in 1..Len(dirs) : dirs[i][1] = "output"
            /\ \A f \in files : f.dir # <<>> /\ f.dir[1] = "output"
            /\ \A f, g \in files : (f.dir = g.dir /\ f.name = g.name) => f = g
            /\ File(IF x = 1 THEN <<"output", "initial">> ELSE SelectedDir(x - 1),
                    "pop_dump", pop) \in files
            /\ \A i \in 1..Len(dirs) :
                  ~(Len(dirs[i]) >= 2 /\ dirs[i][2] = str(x))
            /\ \A f \in files : ~(Len(f.dir) >= 2 /\ f.dir[2] = str(x)))
    /\ [][(pc = "g_check") => UNCHANGED fsVars]_vars

\* C14 witness: the run was stopped at the top of generation 1 with the
\* checkpoint of the initial pass on disk.
C14_Witness ==
    /\ raised = "PopulationSizeError"
    /\ Len(pop) < pop_size
    /\ CheckpointInPlace(0)
    /\ Len(progress) = 1

\* Where the output root of the execution is: ``output``, and once run()
\* has archived it, ``old_output/output``.
OutputRoot == IF pc = "done" THEN <<"old_output", "output">> ELSE <<"output">>

\* The names of generation directories.
GenerationNames == {str(k) : k \in 1..MaxGen}

\* How many generations have their directory: generation x has it from
\* os.mkdir(str(x)) on.
GenerationsStarted ==
    IF pc \in {"g_check", "g_mkdir"} \/ raised = "PopulationSizeError"
    THEN x - 1
    ELSE x

\* How many generations have completed their checkpoint files.
GenerationsCheckpointed ==
    IF pc \in {"g_rec", "g_exit", "r_for"} \cup EndPcs THEN x ELSE x - 1

\* C15: at every moment of run() the directories named after a generation
\* index are, in creation order, root/1, root/2, ... up to the generation
\* that has started (one each, no gap, directly under the output root and
\* nowhere else); every generation that has completed its checkpoint has
\* in its directory the dump made before selection and a ``selected``
\* subdirectory with the survivors' structure files and the population
\* dump.
C15_DirectoryLayout ==
    (entry = "run" /\ x >= 1) =>
        /\ SelectSeq(dirs, LAMBDA d : d[Len(d)] \in GenerationNames) =
              [k \in 1..GenerationsStarted |-> OutputRoot \o <<str(k)>>]
        /\ \A k \in 1..GenerationsCheckpointed :
              LET g == OutputRoot \o <<str(k)>>
              IN  /\ Cardinality({i \in 1..Len(dirs) :
                                     dirs[i] = g \o <<"selected">>}) = 1
                  /\ \E f \in files :
                        f.dir = g /\ f.name = "preselection_pop_dump"
                  /\ \E f \in files :
                        f.dir = g \o <<"selected">> /\ f.name = "structures"
                  /\ \E f \in files :
                        f.dir = g \o <<"selected">> /\ f.name = "pop_dump"

\* C15 witness: a run of three generations has ended.
C15_Witness ==
    /\ entry = "run"
    /\ pc = "done"
    /\ x = 3
    /\ <<"old_output", "output", "3", "selected">> \in Range(dirs)

\* The directory ``initial``.
InitialDir == <<"output", "initial">>

\* The stages of the initial pass that work on the members.
StageEvents == {"optimize", "evaluate", "normalize"}

\* The checkpoint of the initial pass has just been written.
C16_InitialDumped == entry = "run" /\ pc = "r_rec0"

\* C16 as stated: what is persisted in ``initial``, the checkpoint
\* included, is the population as the initializer made it: when the
\* checkpoint is written, none of the optimize, evaluate and normalize
\* stages has run.
C16_Original == C16_InitialDumped => Range(log) \cap StageEvents = {}

\* C16 as amended: the checkpoint of ``initial`` is written after the
\* optimize, evaluate and normalize stages, in fresh and in restart mode,
\* and holds the population those stages produced; before that there is no
\* checkpoint in ``initial``.  Only the structure files of restart mode are
\* written before the stages, right after the load; in fresh mode run()
\* writes no structure files into ``initial``.
C16_InitialHoldsEvaluated ==
    /\ C16_InitialDumped =>
          /\ LastEvents(4) = <<"optimize", "evaluate", "normalize", "dump">>
          /\ File(InitialDir, "pop_dump", pop) \in files
          /\ \A i \in 1..Len(pop) :
                pop[i].opt /\ pop[i].ev /\ pop[i].scaled >= 0
    /\ (entry = "run" /\ pc \in {"r_init", "r_opt0", "r_eval0", "r_norm0",
                                 "r_dump0"}) =>
          \A f \in files : ~(f.dir = InitialDir /\ f.name = "pop_dump")
    /\ (entry = "run" /\ init_func = "load" /\ pc = "r_opt0") =>
          /\ File(InitialDir, "structures", pop) \in files
          /\ Range(log) \cap StageEvents = {}
    /\ (entry = "run" /\ init_func # "load") =>
          \A f \in files : f.name # "structures" \/ Len(f.dir) > 2

\* C16 witness: a restarted run has written the checkpoint of ``initial``;
\* the structure files are there from the load.
C16_Witness ==
    /\ C16_InitialDumped
    /\ init_func = "load"
    /\ File(InitialDir, "pop_dump", pop) \in files
    /\ \E f \in files : f.dir = InitialDir /\ f.name = "structures"

LoadedPcs == {"c_reset", "c_write", "c_fitness", "c_attach"}

IdsOf(p) == [i \in 1..Len(p) |-> p[i].id]

\* The positions of p that hold the first member of their identity.
FirstPositions(p) ==
    {i \in 1..Len(p) : \A j \in 1..(i - 1) : p[j].id # p[i].id}

\* The members of p at its first positions, in the order they have in p.
FirstOccurrences(p) ==
    [k \in 1..Cardinality(FirstPositions(p)) |->
        p[CHOOSE i \in FirstPositions(p) :
              Cardinality({j \in FirstPositions(p) : j <= i}) = k]]

\* C18: the merge of a generation puts the offspring and then the mutants
\* behind the parents, and the deduplication that follows keeps, of every
\* identity, the first member in that order and nothing else, the kept
\* members staying in their relative order.
C18_MergeDedupOrder ==
    [][ /\ (pc = "g_merge") => (pop' = pop \o offspring \o mutants)
        /\ (pc = "g_dedup") => (pop' = FirstOccurrences(pop)) ]_vars

\* C18 witness: the parents A, B (1, 2) were merged with the offspring
\* B, C (2, 3); after the deduplication the population is A, B, C.
C18_Witness ==
    /\ pc = "g_predump"
    /\ IdsOf(offspring) = <<2, 3>>
    /\ mutants = <<>>
    /\ IdsOf(pop) = <<1, 2, 3>>
    /\ pop[2].opt

\* C19: a selection on at least pop_size members returns pop_size of them,
\* none twice, and no member left out ranks before a returned one: every
\* survivor has a scaled fitness greater than that of every excluded
\* member, or the same with the identity deciding.
C19_RankedTruncation ==
    [][ (pc = "g_select" /\ Len(pop) >= pop_size) =>
            /\ pc' = "g_selected"
            /\ Len(pop') = pop_size
            /\ Range(pop') \subseteq Range(pop)
            /\ Cardinality(Range(IdsOf(pop'))) = pop_size
            /\ \A e \in Range(pop) \ Range(pop') :
                  \A s \in Range(pop') :
                      \/ s.scaled > e.scaled
                      \/ s.scaled = e.scaled /\ s.id < e.id ]_vars

\* C19 witness: of four members with the raw fitness values 1, 2, 3, 4 the
\* selection of two has returned those with 4 and 3.
C19_Witness ==
    /\ pc = "g_selected"
    /\ pop_size = 2
    /\ failId = 0
    /\ \E f \in files : f.name = "preselection_pop_dump" /\ f.holds.n = 4
    /\ Len(pop) = 2
    /\ pop[1].raw = 4
    /\ pop[2].raw = 3

\* The placer ids of the functional groups gs, group after group.
RECURSIVE PlacersInOrder(_)
PlacersInOrder(gs) ==
    IF gs = <<>> THEN <<>>
    ELSE PlacersInOrder(SubSeq(gs, 1, Len(gs) - 1)) \o gs[Len(gs)].placers

\* C20: whichever constructor built a building block, its placer ids are
\* the `placer_ids` argument when one was passed (an empty tuple too);
\* else, when the building block has functional groups, their placer ids
\* one group after the other; else the ids of all its atoms in atom order.
C20_PlacerIds ==
    bb_pc = "built" =>
        block.placer_ids =
            IF call.placer_ids.given
            THEN call.placer_ids.ids
            ELSE IF Len(block.functional_groups) > 0
                 THEN PlacersInOrder(block.functional_groups)
                 ELSE [i \in 1..call.natoms |-> i - 1]

\* C20 witness: init_from_file has built a building block of two functional
\* groups without a `placer_ids` argument; the placer ids are those of the
\* first group followed by those of the second.
C20_Witness ==
    /\ bb_pc = "built"
    /\ call.ctor = "init_from_file"
    /\ ~call.placer_ids.given
    /\ Len(block.functional_groups) = 2
    /\ block.functional_groups[1].placers = <<1>>
    /\ block.functional_groups[2].placers = <<0, 1>>
    /\ block.placer_ids = <<1, 0, 1>>

\* ------------------------------------------------------------------ C23
\* C23: init_from_file raises ValueError exactly when the extension of the
\* path is none of .mol, .sdf and .pdb; it then does so with no reader
\* invoked and no building block constructed. With a supported extension no
\* ValueError is raised and the reader invoked is the one registered for the
\* extension: MolFromMolFile for .mol and .sdf, MolFromPDBFile for .pdb.
C23_FileExtension ==
    (call.ctor = "init_from_file" /\ bb_pc # "call") =>
        /\ call.extension \notin {".mol", ".sdf", ".pdb"} =>
              /\ bb_pc = "raised"
              /\ bb_raised = "ValueError"
              /\ reader = "none"
              /\ block = NewBlock
        /\ call.extension \in {".mol", ".sdf"} =>
              bb_raised = "none" /\ reader = "MolFromMolFile"
        /\ call.extension = ".pdb" =>
              bb_raised = "none" /\ reader = "MolFromPDBFile"

\* An unsupported extension has been refused.
C23_Witness ==
    /\ call.ctor = "init_from_file"
    /\ call.extension = ".xyz"
    /\ bb_pc = "raised"
    /\ bb_raised = "ValueError"
    /\ reader = "none"

\* ------------------------------------------------------------------ C21
\* The ids at which the functional groups yielded so far were taken.
YieldedIds == [i \in 1..Len(result) |-> result[i].id]

\* get_functional_groups has gone through all of fg_ids without an error.
Exhausted ==
    /\ op.name = "get_functional_groups"
    /\ bb_raised = "none"
    /\ Len(result) = Len(op.fg_ids)

\* C21: get_functional_groups yields the functional groups ordered by id:
\* all of them in increasing id order when fg_ids is None, exactly the one
\* asked for when fg_ids is an int, and the requested ones ordered by id
\* when fg_ids is an iterable.
C21_OrderedById ==
    Exhausted =>
        /\ \A i \in 1..Len(result) :
              result[i].fg = block.functional_groups[result[i].id + 1]
        /\ \A i, j \in 1..Len(result) :
              i < j => result[i].id <= result[j].id
        /\ op.arg.kind = "None" =>
              YieldedIds = [i \in 1..Len(block.functional_groups) |-> i - 1]
        /\ op.arg.kind = "int" => YieldedIds = op.arg.ids
        /\ op.arg.kind = "iterable" => Range(YieldedIds) = Range(op.arg.ids)

\* ------------------------------------------------------------------ C22
\* C22: with_functional_groups returns a clone that carries the functional
\* groups it was given and leaves the original as it was: the functional
\* groups, placer ids, atoms and bonds of the original are those of before
\* the call, and the placer ids of the clone are those of the original, not
\* worked out again from the new functional groups.
C22_CloneKeepsOriginal ==
    [][(op'.name = "with_functional_groups") =>
          /\ block'.functional_groups = block.functional_groups
          /\ block'.placer_ids = block.placer_ids
          /\ block'.atoms = block.atoms
          /\ block'.bonds = block.bonds
          /\ Len(result') = 1
          /\ result'[1].functional_groups = op'.functional_groups
          /\ result'[1].placer_ids = block.placer_ids
          /\ result'[1].atoms = block.atoms
          /\ result'[1].bonds = block.bonds]_vars

\* A clone has been made with functional groups whose placer ids are not
\* the placer ids of the original.
C22_Witness ==
    /\ op.name = "with_functional_groups"
    /\ op.functional_groups # <<>>
    /\ op.functional_groups # block.functional_groups
    /\ result[1].functional_groups = op.functional_groups
    /\ result[1].placer_ids = block.placer_ids
    /\ block.placer_ids #
           flatten([i \in 1..Len(op.functional_groups) |->
                       op.functional_groups[i].placers])

\* ------------------------------------------------------------------ C24
\* Positions of run() at the three stages C24 names, and at the two of them
\* whose call is a statement with no assignment.
MergePcs == {"g_merge"}
StatementPcs == {"r_norm0", "g_dedup", "g_norm"}

FitnessReset(p) ==
    \A i \in 1..Len(p) :
        ~p[i].ev /\ p[i].raw = 0 /\ p[i].failed /\ p[i].scaled = -1

\* Every member of p has gone through the fitness calculation.
FitnessCalculated(p) == \A i \in 1..Len(p) : p[i].ev

\* What C25 says of one state of compare().
C25_State ==
    /\ pop = <<>>
    /\ Len(subpops) = EventCount("attach")
    /\ pc \in {"c_write", "c_fitness"} => FitnessReset(sp)
    /\ pc = "c_attach" =>
          /\ FitnessCalculated(sp)
          /\ LastEvents(4) = <<"load", "reset", "write", "evaluate">>
    /\ \A i \in 1..Len(subpops) :
          /\ subpops[i] # <<>>
          /\ FitnessCalculated(subpops[i])
          /\ pc # "done" =>
                \E f \in files : /\ f.dir = sp_dir(i - 1)
                                 /\ f.holds.n = Len(subpops[i])

\* C25: the encapsulating population of compare() has no direct members and
\* gets one subpopulation for every entry of comparison_pops, each attached
\* whole and in input order (the i-th is the one written to pop{i-1}); the
\* members of a loaded population are without fitness data from the reset
\* until its fitness is calculated, and its fitness is calculated before it
\* is attached.
C25_Subpopulations ==
    [][(entry = "compare") =>
          /\ C25_State'
          /\ Len(subpops') + cmpLeft' = Len(subpops) + cmpLeft
          /\ (pc' = "c_norm") => (cmpLeft' = 0)
          /\ (subpops' # subpops /\ pc = "c_attach") =>
                (subpops' = Append(subpops, sp))]_vars

\* The second of two populations is about to be attached: it was loaded
\* with fitness values, and one of its members has a new raw fitness.
C25_Witness ==
    /\ entry = "compare"
    /\ pc = "c_attach"
    /\ Len(subpops) = 1
    /\ cmpLeft = 1
    /\ pop = <<>>
    /\ Len(sp) = 2
    /\ FitnessCalculated(sp)
    /\ \E i \in 1..Len(sp) : ~sp[i].failed /\ sp[i].scaled = -1

\* ------------------------------------------------------------------ C26
\* How often the exit predicate has been evaluated.
ExitTests == EventCount("exit") + EventCount("noexit")

\* Positions of run() inside a generation, before the exit predicate of that
\* generation has been evaluated.
BeforeExitPcs ==
    {"g_check", "g_mkdir", "g_cross", "g_mutate", "g_merge", "g_dedup",
     "g_predump", "g_opt", "g_eval", "g_norm", "g_select", "g_selected",
     "g_dump", "g_rec", "g_exit"}

\* The events of a generation executed in full are in the log: variation,
\* selection and the checkpoint (survivors written, dump, snapshot).
GenerationEvents ==
    {"mkdir", "crossover", "mutate", "merge", "select", "write", "record"}

\* What C26 says of one state of run().
C26_State ==
    /\ x = 0 => ExitTests = 0
    /\ (x >= 1 /\ (pc \in BeforeExitPcs \/ pc = "aborted")) => ExitTests = x - 1
    /\ (pc = "r_for" \/ pc \in EndPcs) =>
          /\ ExitTests = x
          /\ EventCount("record") = x + 1
    /\ (pc \in EndPcs /\ num_generations >= 1) =>
          /\ x >= 1
          /\ \A e \in GenerationEvents : EventCount(e) >= 1

\* C26: the exit predicate is not evaluated on the population of generation
\* 0: with num_generations >= 1 the first loop test enters generation 1
\* whatever the predicate says of the initial population, an initial
\* population of the configured size passes the size test, and run() does
\* not get to its end without the variation, selection and checkpoint of
\* generation 1; the predicate is evaluated once in every generation, right
\* after the snapshot of that generation.
C26_ExitAfterGeneration ==
    [][(entry = "run") =>
          /\ C26_State'
          /\ (pc = "r_for" /\ x = 0 /\ num_generations >= 1) =>
                (pc' = "g_check" /\ x' = 1 /\ log' = log)
          /\ (pc = "g_check" /\ Len(pop) = pop_size) => (pc' = "g_mkdir")
          /\ (ExitTests' # ExitTests) =>
                /\ pc = "g_exit"
                /\ ExitTests' = ExitTests + 1
                /\ LastEvents(1) = <<"record">>]_vars

\* Generation 1 has run up to its snapshot without an evaluation of the
\* exit predicate, although the initial population held a member whose raw
\* fitness reaches the threshold (its snapshot shows both identities
\* evaluated; the second has raw fitness NumIds).
C26_Witness ==
    /\ entry = "run"
    /\ pc = "g_exit"
    /\ x = 1
    /\ exitThr = NumIds
    /\ failId = 0
    /\ Len(progress) = 2
    /\ progress[1].max = NumIds
    /\ exit(pop, exitThr)
    /\ ExitTests = 0

\* ------------------------------------------------------------------ C27
\* C27: when run() has left the generation loop normally, progress holds
\* 1 + x snapshots, x being the number of generations executed: the first
\* is that of the initial population as normalized (no selection before
\* it), each further one follows a survivor selection; with
\* num_generations = 0 the end is reached with one snapshot, no size test
\* and no evaluation of the exit predicate.
C27_SnapshotCount ==
    [][(entry = "run") =>
          /\ (pc' \in EndPcs) =>
                /\ raised' = "none"
                /\ Len(progress') = 1 + x'
                /\ EventCount("record")' = 1 + x'
                /\ EventCount("select")' = x'
                /\ EventCount("mkdir")' = 2 + x'
                /\ num_generations = 0 =>
                      (x' = 0 /\ ExitTests' = 0 /\ Len(progress') = 1)
          /\ (Len(progress') # Len(progress)) =>
                /\ progress' = Append(progress, Snapshot(pop))
                /\ \/ pc = "r_rec0" /\ progress = <<>>
                         /\ LastEvents(2) = <<"normalize", "dump">>
                         /\ EventCount("select") = 0
                   \/ pc = "g_rec" /\ Len(progress) = x
                         /\ LastEvents(3) = <<"select", "write", "dump">>
          /\ (num_generations = 0) => (pc' \notin BeforeExitPcs)]_vars

\* A run has ended normally after two generations, with three snapshots.
C27_Witness ==
    /\ entry = "run"
    /\ pc = "done"
    /\ raised = "none"
    /\ x = 2
    /\ Len(progress) = 3
    /\ EventCount("select") = 2

\* ------------------------------------------------------------------ C28
\* The files called name, wherever they are.
FilesNamed(name) == {f \in files : f.name = name}

\* Positions of run() after progress.dmp has been written.
AfterProgressPcs == {"r_tar", "r_endarchive", "done"}

\* C28: progress.dmp is written once, on the way to the normal end of run()
\* only: after the generation loop, the cleanup hook and the plot.  When
\* PopulationSizeError has ended run() there is no progress file, the
\* cleanup hook has run at the start of run() only, ``output`` is neither
\* tarred nor moved to ``old_output``, and the process is still in a
\* directory below ``output``, not in the launch directory.
C28_ProgressFile ==
    /\ [](entry = "run" =>
            /\ EventCount("progress.dmp") = IF pc \in AfterProgressPcs
                                            THEN 1 ELSE 0
            /\ Cardinality(FilesNamed("progress.dmp")) =
                   EventCount("progress.dmp")
            /\ raised = "PopulationSizeError" =>
                  /\ pc = "aborted"
                  /\ FilesNamed("progress.dmp") = {}
                  /\ FilesNamed("output.tgz") = {}
                  /\ EventCount("kill") = 1
                  /\ EventCount("tar") = 0
                  /\ EventCount("plot") = 0
                  /\ EventCount("archive") = 1
                  /\ <<"output">> \in Range(dirs)
                  /\ Len(cwd) >= 2 /\ cwd[1] = "output")
    /\ [][(entry = "run" /\ FilesNamed("progress.dmp") = {} /\
           FilesNamed("progress.dmp")' # {}) =>
             /\ pc = "r_progress"
             /\ raised = "none"
             /\ LastEvents(2) = <<"kill", "plot">>
             /\ EventCount("kill") = 2]_vars

\* PopulationSizeError has ended a run at the top of its first generation.
C28_Witness ==
    /\ entry = "run"
    /\ raised = "PopulationSizeError"
    /\ x = 1
    /\ FilesNamed("progress.dmp") = {}
    /\ cwd = <<"output", "initial">>

\* ------------------------------------------------------------------ C29
\* The population that stands at the top of iteration x has been through
\* the whole pass before it: the initial pass for x = 1 (optimized,
\* evaluated, normalized, dumped, recorded; no exit test), the checkpoint
\* of generation x - 1 otherwise (written to ``selected``, dumped, recorded,
\* exit predicate evaluated and found false).
PassedBefore ==
    /\ LastEvents(5) =
          IF x = 1
          THEN <<"optimize", "evaluate", "normalize", "dump", "record">>
          ELSE <<"select", "write", "dump", "record", "noexit">>
    /\ ExitTests = x - 1
    /\ Len(progress) = x
    /\ progress[x] = Snapshot(pop)
    /\ \A i \in 1..Len(pop) : pop[i].opt /\ pop[i].ev /\ pop[i].scaled >= 0
    /\ File(IF x = 1 THEN InitialDir ELSE SelectedDir(x - 1),
            "pop_dump", pop) \in files

====
